---- MODULE Spec2Model ----
(***************************************************************************)
(* A model of pond's gap-fill processor (src/src/filler.js) and of the     *)
(* Event class (src/src/pond/lib/event.js).                                *)
(*                                                                         *)
(* JavaScript values are records [k, n, s] (kind, number, string) so that  *)
(* any two of them can be compared.  An Immutable.Map / plain object of    *)
(* event data is a function from the field names it holds to values.       *)
(* Field paths are top-level field names (one segment).                    *)
(***************************************************************************)
EXTENDS Integers, Sequences, FiniteSets, TLC

VARIABLES
    fillers,     \* slot -> Filler instance (slot 1: built from options, 2: clone)
    keyCounts,   \* heap of the _keyCount objects, by reference
    observers,   \* slot -> whether the processor has an observer attached
    call,        \* the last Filler API call and what it did
    supplied,    \* whether the options of slot 1's constructor held a fieldSpec
    inputs,      \* slot -> events processed by addEvent, in arrival order
    outputs,     \* slot -> events emitted, in emission order
    calls,       \* slot -> number of addEvent calls made
    heap,        \* the Event objects created so far, by reference
    evCall,      \* the last call made on the Event class and what it returned
    batch,       \* the events handed to merge / combine
    grpCall      \* the last merge / combine call and what it returned

fillVars == <<fillers, keyCounts, observers, call, supplied, inputs, outputs, calls>>

eventVars == <<heap, evCall>>

groupVars == <<batch, grpCall>>

vars == <<fillVars, eventVars, groupVars>>

----------------------------------------------------------------------------
(* Bounds *)

MaxEvents == 4      \* addEvent calls in one run
MaxLimit == 2       \* largest limit option tried
MaxHeap == 3        \* Event objects created in one run
MaxBatch == 3       \* events handed to merge / combine

----------------------------------------------------------------------------
(* JavaScript values *)

Num(n) == [k |-> "number", n |-> n, s |-> ""]
Str(s) == [k |-> "string", n |-> 0, s |-> s]
Bool(b) == [k |-> "boolean", n |-> IF b THEN 1 ELSE 0, s |-> ""]
Null == [k |-> "null", n |-> 0, s |-> ""]
Undefined == [k |-> "undefined", n |-> 0, s |-> ""]
NaN == [k |-> "NaN", n |-> 0, s |-> ""]
Arr(a) == [k |-> "array", n |-> 0, s |-> "", a |-> a]
Obj(m) == [k |-> "object", n |-> 0, s |-> "", m |-> m]
ImmMap(m) == [k |-> "Map", n |-> 0, s |-> "", m |-> m]

EmptyMap == [f \in {} |-> Null]

\* underscore's type predicates
isString(v) == v.k = "string"
isNull(v) == v.k = "null"
isNumber(v) == v.k \in {"number", "NaN"}
isObject(v) == v.k \in {"object", "Map", "array"}

\* JavaScript truthiness, as used by `!x` and `x && y`
Truthy(v) ==
    CASE v.k \in {"undefined", "null", "NaN"} -> FALSE
      [] v.k = "number" -> v.n # 0
      [] v.k = "boolean" -> v.n = 1
      [] v.k = "string" -> v.s # ""
      [] OTHER -> TRUE

\* util.isMissing: undefined, null and NaN are missing
isMissing(v) == v.k \in {"undefined", "null", "NaN"}

\* Immutable getIn on a one-segment path: undefined when the key is not there
getIn(data, path) == IF path \in DOMAIN data THEN data[path] ELSE Undefined

hasIn(data, path) == path \in DOMAIN data

setIn(data, path, v) ==
    [f \in DOMAIN data \cup {path} |-> IF f = path THEN v ELSE data[f]]

----------------------------------------------------------------------------
(* Event: construction of the data, setData *)

PointEvent(t, data) ==
    [type |-> "Event", time |-> t, range |-> <<>>, index |-> <<>>, data |-> data]

\* dataFromArg: [error, data]
dataFromArg(arg) ==
    IF isObject(arg)
    THEN [error |-> "", data |-> arg.m]
    ELSE IF isNumber(arg) \/ isString(arg)
    THEN [error |-> "", data |-> [f \in {"value"} |-> arg]]
    ELSE [error |-> "Unable to interpret event data", data |-> EmptyMap]

\* timestampFromArg: a number, a Date or a moment gives the time: [error, time]
DateOf(t) == [k |-> "date", n |-> t, s |-> ""]

timestampFromArg(arg) ==
    IF isNumber(arg) \/ arg.k \in {"date", "moment"}
    THEN [error |-> "", time |-> arg.n]
    ELSE [error |-> "Unable to get timestamp", time |-> 0]

\* new Event(arg1, arg2), arg1 not an Event: [error, event]
EventCtor(arg1, arg2) ==
    LET t == timestampFromArg(arg1)
        d == dataFromArg(arg2)
    IN  IF t.error # "" THEN [error |-> t.error, event |-> PointEvent(0, EmptyMap)]
        ELSE IF d.error # "" THEN [error |-> d.error, event |-> PointEvent(0, EmptyMap)]
        ELSE [error |-> "", event |-> PointEvent(t.time, d.data)]

\* Event.setData: [error, event]; the receiver is not written
setData(e, arg) ==
    LET d == dataFromArg(arg)
    IN [error |-> d.error, event |-> [e EXCEPT !.data = d.data]]

\* Event.get / Event.value on a one-segment path
get(e, fieldPath) == getIn(e.data, fieldPath)

\* reducer functions handed in by the caller
RECURSIVE Sum(_, _)
Sum(values, i) ==
    IF i > Len(values) THEN Num(0)
    ELSE IF values[i].k # "number" \/ Sum(values, i + 1).k # "number" THEN NaN
    ELSE Num(values[i].n + Sum(values, i + 1).n)

Reduce(reducer, values) ==
    CASE reducer = "count" -> Num(Len(values))
      [] reducer = "sum" -> Sum(values, 1)
      [] reducer = "first" -> IF values = <<>> THEN Undefined ELSE values[1]
      [] OTHER -> Undefined

\* Event.collapse: [error, event]
collapse(e, fieldSpecList, name, reducer, append) ==
    LET data == IF append THEN e.data ELSE EmptyMap
        d == [i \in 1..Len(fieldSpecList) |-> get(e, fieldSpecList[i])]
    IN  setData(e, Obj(setIn(data, name, Reduce(reducer, d))))

RECURSIVE SelectFields(_, _, _, _)
SelectFields(e, names, i, data) ==
    IF i > Len(names) THEN data
    ELSE SelectFields(e, names, i + 1, setIn(data, names[i], get(e, names[i])))

\* Event.selector: [error, same, event]; same says the event itself was returned
selector(e, fieldPath) ==
    IF isString(fieldPath)
    THEN setData(e, Obj(SelectFields(e, <<fieldPath.s>>, 1, EmptyMap))) @@ [same |-> FALSE]
    ELSE IF fieldPath.k = "array"
    THEN setData(e, Obj(SelectFields(e, fieldPath.a, 1, EmptyMap))) @@ [same |-> FALSE]
    ELSE [error |-> "", event |-> e, same |-> TRUE]

\* mutant: the call writes its result into the receiver as well
StoreWritten(store, self, e) == Append([store EXCEPT ![self] = e], e)

\* the object store after a call on store[self] has built the event e: the receiver's
\* _d is not assigned, the result is a new object
Store(store, self, e) == Append(store, e)

----------------------------------------------------------------------------
(* Event.merge and Event.combine *)

\* Strings that are built, split and parsed are sequences of one-character strings.
Digits == <<"0", "1", "2", "3", "4", "5", "6", "7", "8", "9">>

IsDigit(c) == \E d \in 1..10 : Digits[d] = c

DigitVal(c) == (CHOOSE d \in 1..10 : Digits[d] = c) - 1

\* String(n) for an integer n >= 0
RECURSIVE ToChars(_)
ToChars(n) ==
    IF n < 10 THEN <<Digits[n + 1]>>
    ELSE ToChars(n \div 10) \o <<Digits[(n % 10) + 1]>>

\* the unary plus on a string: the number it spells, NaN when it spells none
RECURSIVE DigitsValue(_, _)
DigitsValue(chars, i) ==
    IF i = 0 THEN 0 ELSE 10 * DigitsValue(chars, i - 1) + DigitVal(chars[i])

ParseNum(chars) ==
    IF chars = <<>> THEN Num(0)
    ELSE IF \A i \in 1..Len(chars) : IsDigit(chars[i])
    THEN Num(DigitsValue(chars, Len(chars)))
    ELSE NaN

\* String.split on a one-character separator
RECURSIVE SplitFrom(_, _, _, _)
SplitFrom(chars, sep, i, part) ==
    IF i > Len(chars) THEN <<part>>
    ELSE IF chars[i] = sep THEN <<part>> \o SplitFrom(chars, sep, i + 1, <<>>)
    ELSE SplitFrom(chars, sep, i + 1, Append(part, chars[i]))

Split(chars, sep) == SplitFrom(chars, sep, 1, <<>>)

\* IndexedEvent and TimeRangeEvent: an index string, a begin/end pair of milliseconds
IndexedEvent(index, data) ==
    [type |-> "IndexedEvent", time |-> 0, range |-> <<>>, index |-> index, data |-> data]

TimeRangeEvent(begin, end, data) ==
    [type |-> "TimeRangeEvent", time |-> 0, range |-> <<begin, end>>, index |-> <<>>,
     data |-> data]

\* A JavaScript object used as a dictionary: its keys in insertion order, its values
EmptyObject == [keys |-> <<>>, vals |-> EmptyMap]

has(obj, key) == key \in DOMAIN obj.vals

Put(obj, key, v) ==
    [keys |-> IF has(obj, key) THEN obj.keys ELSE Append(obj.keys, key),
     vals |-> setIn(obj.vals, key, v)]

\* a property name that is a canonical array index
IsIndexName(chars) ==
    /\ chars # <<>>
    /\ \A i \in 1..Len(chars) : IsDigit(chars[i])
    /\ (chars[1] = "0" => Len(chars) = 1)

RECURSIVE Ascending(_)
Ascending(S) ==
    IF S = {} THEN <<>>
    ELSE LET m == CHOOSE x \in S : \A y \in S : ParseNum(x).n <= ParseNum(y).n
         IN  <<m>> \o Ascending(S \ {m})

\* the order in which _.each visits an object: index names ascending, then the
\* other names in insertion order
OwnKeys(obj) ==
    Ascending({k \in DOMAIN obj.vals : IsIndexName(k)})
        \o SelectSeq(obj.keys, LAMBDA k : ~IsIndexName(k))

\* mutant: a time range is keyed by its begin time alone
EventKeyBeginOnly(e) ==
    CASE e.type = "Event" -> ToChars(e.time)
      [] e.type = "IndexedEvent" -> e.index
      [] e.type = "TimeRangeEvent" -> ToChars(e.range[1]) \o <<",">>

\* the key an event is grouped under, as the property name it becomes
EventKey(e) ==
    CASE e.type = "Event" -> ToChars(e.time)
      [] e.type = "IndexedEvent" -> e.index
      [] e.type = "TimeRangeEvent" -> ToChars(e.range[1]) \o <<",">> \o ToChars(e.range[2])

\* mutant: the type recorded for a key is not compared
SameTypeUnchecked(recorded, type) == TRUE

\* typeMap[key] === type
SameType(recorded, type) == recorded = type

\* the grouping loop of merge and combine: [error, eventMap, typeMap]
RECURSIVE GroupFrom(_, _, _)
GroupFrom(events, i, st) ==
    IF i > Len(events) \/ st.error # "" THEN st
    ELSE LET e == events[i]
             type == e.type
             key == EventKey(e)
             list == IF has(st.eventMap, key) THEN st.eventMap.vals[key] ELSE <<>>
             eventMap == Put(st.eventMap, key, Append(list, e))
         IN  IF ~has(st.typeMap, key)
             THEN GroupFrom(events, i + 1,
                            [error |-> "", eventMap |-> eventMap,
                             typeMap |-> Put(st.typeMap, key, type)])
             ELSE IF ~SameType(st.typeMap.vals[key], type)
             THEN [error |-> "Events are not homogeneous", eventMap |-> eventMap,
                   typeMap |-> st.typeMap]
             ELSE GroupFrom(events, i + 1,
                            [error |-> "", eventMap |-> eventMap, typeMap |-> st.typeMap])

Group(events) ==
    GroupFrom(events, 1, [error |-> "", eventMap |-> EmptyObject, typeMap |-> EmptyObject])

\* the output event built for a key
OutEvent(type, key, dataArg) ==
    CASE type = "Event" -> EventCtor(ParseNum(key), dataArg).event
      [] type = "IndexedEvent" -> IndexedEvent(key, dataFromArg(dataArg).data)
      [] type = "TimeRangeEvent" ->
            TimeRangeEvent(ParseNum(Split(key, ",")[1]).n, ParseNum(Split(key, ",")[2]).n,
                           dataFromArg(dataArg).data)

\* mutant: the first map's value is kept where both have one
mergeMapsFirstWins(m1, m2) ==
    [f \in DOMAIN m1 \cup DOMAIN m2 |-> IF f \in DOMAIN m1 THEN m1[f] ELSE m2[f]]

\* Immutable Map.merge: the keys of both, the second map's value where both have one
mergeMaps(m1, m2) ==
    [f \in DOMAIN m1 \cup DOMAIN m2 |-> IF f \in DOMAIN m2 THEN m2[f] ELSE m1[f]]

RECURSIVE MergedData(_, _, _)
MergedData(events, i, data) ==
    IF i > Len(events) THEN data
    ELSE MergedData(events, i + 1, mergeMaps(data, events[i].data))

\* Event.merge: [error, out]
merge(events) ==
    IF Len(events) = 0 THEN [error |-> "", out |-> <<>>]
    ELSE LET g == Group(events)
             keys == OwnKeys(g.eventMap)
         IN  IF g.error # "" THEN [error |-> g.error, out |-> <<>>]
             ELSE [error |-> "",
                   out |-> [j \in 1..Len(keys) |->
                              OutEvent(g.typeMap.vals[keys[j]], keys[j],
                                       ImmMap(MergedData(g.eventMap.vals[keys[j]], 1, EmptyMap)))]]

\* the names of the fields of a data map, in field order
FieldOrder == <<"value", "in", "total">>

FieldNames(data) == SelectSeq(FieldOrder, LAMBDA p : p \in DOMAIN data)

\* combine's fieldNames: a string gives one name, an array its names, else none
CombineFieldNames(fieldSpec) ==
    IF isString(fieldSpec) THEN Arr(<<fieldSpec.s>>)
    ELSE IF fieldSpec.k = "array" THEN fieldSpec
    ELSE Undefined

\* the lists of values combine collects for one group: field name -> values
RECURSIVE PushFields(_, _, _, _)
PushFields(e, fields, i, mapEvent) ==
    IF i > Len(fields) THEN mapEvent
    ELSE LET list == IF fields[i] \in DOMAIN mapEvent THEN mapEvent[fields[i]] ELSE <<>>
         IN  PushFields(e, fields, i + 1,
                        setIn(mapEvent, fields[i], Append(list, getIn(e.data, fields[i]))))

\* mutant: with no fieldNames the fields are those of the first event of the group
CombineFieldsOfFirst(events, fieldNames, i) ==
    IF ~Truthy(fieldNames) THEN FieldNames(events[1].data) ELSE fieldNames.a

\* the fields combine reads from the i-th event of a group
CombineFields(events, fieldNames, i) ==
    IF ~Truthy(fieldNames) THEN FieldNames(events[i].data) ELSE fieldNames.a

RECURSIVE MapEvent(_, _, _, _)
MapEvent(events, fieldNames, i, mapEvent) ==
    IF i > Len(events) THEN mapEvent
    ELSE MapEvent(events, fieldNames, i + 1,
                  PushFields(events[i], CombineFields(events, fieldNames, i), 1, mapEvent))

\* Event.combine: [error, out]
combine(events, fieldSpec, reducer) ==
    IF Len(events) = 0 THEN [error |-> "", out |-> <<>>]
    ELSE LET fieldNames == CombineFieldNames(fieldSpec)
             g == Group(events)
             keys == OwnKeys(g.eventMap)
             Reduced(key) ==
                 LET mapEvent == MapEvent(g.eventMap.vals[key], fieldNames, 1, EmptyMap)
                 IN  [f \in DOMAIN mapEvent |-> Reduce(reducer, mapEvent[f])]
         IN  IF g.error # "" THEN [error |-> g.error, out |-> <<>>]
             ELSE [error |-> "",
                   out |-> [j \in 1..Len(keys) |->
                              OutEvent(g.typeMap.vals[keys[j]], keys[j], Obj(Reduced(keys[j])))]]

----------------------------------------------------------------------------
(* Event.map *)

\* a mapper function handed in by the caller, by name
Fn(name) == [k |-> "function", n |-> 0, s |-> name]

isFunction(v) == v.k = "function"

\* the mapper "asTotal" returns {total: event.get("value")}
ApplyMapper(f, e) == [x \in {"total"} |-> get(e, "value")]

\* the default parameter value: an argument that is left out or undefined is "value"
MapFieldSpecDefault(arg) == IF arg.k = "undefined" THEN Str("value") ELSE arg

\* result[key].push(value), the list created when the key is new
PushValue(result, key, value) ==
    setIn(result, key, Append(IF key \in DOMAIN result THEN result[key] ELSE <<>>, value))

\* one field read from every event
RECURSIVE MapField(_, _, _, _)
MapField(events, fieldSpec, i, result) ==
    IF i > Len(events) THEN result
    ELSE MapField(events, fieldSpec, i + 1, PushValue(result, fieldSpec, get(events[i], fieldSpec)))

\* every listed field read from every event
RECURSIVE MapFields(_, _, _, _)
MapFields(events, names, n, result) ==
    IF n > Len(names) THEN result
    ELSE MapFields(events, names, n + 1, MapField(events, names[n], 1, result))

\* the key/value pairs of an object pushed onto the result
RECURSIVE PushPairs(_, _, _, _)
PushPairs(pair, names, n, result) ==
    IF n > Len(names) THEN result
    ELSE PushPairs(pair, names, n + 1, PushValue(result, names[n], pair[names[n]]))

RECURSIVE MapPairs(_, _, _, _)
MapPairs(events, mapper, i, result) ==
    IF i > Len(events) THEN result
    ELSE LET pair == IF isFunction(mapper) THEN ApplyMapper(mapper, events[i])
                     ELSE events[i].data
         IN  MapPairs(events, mapper, i + 1, PushPairs(pair, FieldNames(pair), 1, result))

\* Event.map(evts, multiFieldSpec): [error, mapped]
map(evts, arg) ==
    LET multiFieldSpec == MapFieldSpecDefault(arg)
    IN  IF evts.k # "array"
        THEN [error |-> "Unknown event list type", mapped |-> EmptyMap]
        ELSE [error |-> "",
              mapped |->
                 IF isString(multiFieldSpec)
                 THEN MapField(evts.a, multiFieldSpec.s, 1, EmptyMap)
                 ELSE IF multiFieldSpec.k = "array"
                 THEN MapFields(evts.a, multiFieldSpec.a, 1, EmptyMap)
                 ELSE MapPairs(evts.a, multiFieldSpec, 1, EmptyMap)]

----------------------------------------------------------------------------
(* Filler *)

Slots == {1, 2}

NoFiller ==
    [live |-> FALSE, _fieldSpec |-> Undefined, _method |-> Undefined,
     _limit |-> Undefined, _previousEvent |-> <<>>, _keyCount |-> 0,
     _lastGoodLinear |-> Null, _linearFillCache |-> <<>>]

NoOptions == [fieldSpec |-> Undefined, method |-> Undefined, limit |-> Undefined]

\* Processor/Observable: a processor is built with no observer attached
ProcessorInit == FALSE

hasObservers(self) == observers[self]

\* the configuration the constructor takes from its arguments: [error, ...]
CtorConfig(arg1, options) ==
    IF arg1.kind = "Filler"
    THEN [error |-> "",
          fieldSpec |-> fillers[arg1.ref]._fieldSpec,
          method |-> fillers[arg1.ref]._method,
          limit |-> fillers[arg1.ref]._limit]
    ELSE IF arg1.kind = "Pipeline"
    THEN [error |-> "",
          fieldSpec |-> options.fieldSpec,
          method |-> IF options.method = Undefined THEN Str("zero") ELSE options.method,
          limit |-> IF options.limit = Undefined THEN Null ELSE options.limit]
    ELSE [error |-> "Unknown arg to Filler constructor",
          fieldSpec |-> Undefined, method |-> Undefined, limit |-> Undefined]

\* mutant: a copy keeps the run state objects of the instance it is made from
CtorRunStateShared(self, arg1) ==
    IF arg1.kind = "Filler"
    THEN [_previousEvent |-> fillers[arg1.ref]._previousEvent,
          _keyCount |-> fillers[arg1.ref]._keyCount,
          _lastGoodLinear |-> fillers[arg1.ref]._lastGoodLinear,
          _linearFillCache |-> fillers[arg1.ref]._linearFillCache]
    ELSE [_previousEvent |-> <<>>, _keyCount |-> self,
          _lastGoodLinear |-> Null, _linearFillCache |-> <<>>]

\* the run state a new instance starts with; its _keyCount is its own new object
CtorRunState(self, arg1) ==
    [_previousEvent |-> <<>>, _keyCount |-> self,
     _lastGoodLinear |-> Null, _linearFillCache |-> <<>>]

\* a string fieldSpec becomes a one-element list, null becomes ["value"]
CtorFieldSpec(fieldSpec) ==
    IF isString(fieldSpec) THEN Arr(<<fieldSpec.s>>)
    ELSE IF isNull(fieldSpec) THEN Arr(<<"value">>)
    ELSE fieldSpec

\* `this.fieldSpec`: a property the class never assigns
fieldSpecProperty(obj) == Undefined

\* the check of the method
CtorMethodCheck(method) ==
    IF method \in {Str("zero"), Str("pad"), Str("linear")}
    THEN ""
    ELSE "Unknown method passed to Filler"

\* the check made in linear mode: reading .length of undefined is a TypeError
CtorLinearCheck(obj) ==
    IF obj._method = Str("linear")
    THEN IF fieldSpecProperty(obj).k # "array"
         THEN "TypeError"
         ELSE IF Len(fieldSpecProperty(obj).a) > 1
         THEN "Linear fill takes a path to a single column"
         ELSE ""
    ELSE ""

\* new Filler(arg1, options) for slot self: [error, obj]
FillerCtor(self, arg1, options) ==
    LET cfg == CtorConfig(arg1, options)
        rs == CtorRunState(self, arg1)
        obj == [live |-> TRUE,
                _fieldSpec |-> CtorFieldSpec(cfg.fieldSpec),
                _method |-> cfg.method,
                _limit |-> cfg.limit,
                _previousEvent |-> rs._previousEvent,
                _keyCount |-> rs._keyCount,
                _lastGoodLinear |-> rs._lastGoodLinear,
                _linearFillCache |-> rs._linearFillCache]
        error == IF cfg.error # "" THEN cfg.error
                 ELSE IF CtorMethodCheck(cfg.method) # "" THEN CtorMethodCheck(cfg.method)
                 ELSE CtorLinearCheck(obj)
    IN [error |-> error, obj |-> IF error = "" THEN obj ELSE NoFiller]

\* mutant: the limit is tested with > in place of >=
LimitReachedLate(f, count) == Truthy(f._limit) /\ count > f._limit.n

\* the limit test: a limit is set and the path's counter has reached it
LimitReached(f, count) == Truthy(f._limit) /\ count >= f._limit.n

\* mutant: the test for a path that does not exist is left out
PathExistsAlways(data, path) == TRUE

\* whether _padAndZero looks at the path at all
PathExists(data, path) == hasIn(data, path)

\* mutant: a value that is not missing leaves the path's counter as it is
ResetCountKept(kc, path) == kc

\* a value that is not missing ends the run: the path's counter goes back to 0
ResetCount(kc, path) == setIn(kc, path, 0)

\* one iteration of _padAndZero's loop: [data, keyCount]
PadAndZeroPath(f, path, data, kc) ==
    LET kc1 == IF path \in DOMAIN kc THEN kc ELSE setIn(kc, path, 0)
        same == [data |-> data, keyCount |-> kc1]
        val == getIn(data, path)
    IN  IF ~PathExists(data, path) THEN same
        ELSE IF isMissing(val)
        THEN IF LimitReached(f, kc1[path]) THEN same
             ELSE IF f._method = Str("zero")
             THEN [data |-> setIn(data, path, Num(0)),
                   keyCount |-> setIn(kc1, path, kc1[path] + 1)]
             ELSE IF f._method = Str("pad")
             THEN IF f._previousEvent # <<>>
                  THEN LET prevVal == getIn(f._previousEvent[1].data, path)
                       IN  IF ~isMissing(prevVal)
                           THEN [data |-> setIn(data, path, prevVal),
                                 keyCount |-> setIn(kc1, path, kc1[path] + 1)]
                           ELSE same
                  ELSE same
             ELSE same
        ELSE [data |-> data, keyCount |-> ResetCount(kc1, path)]

RECURSIVE PadAndZeroFrom(_, _, _, _, _)
PadAndZeroFrom(f, paths, i, data, kc) ==
    IF i > Len(paths)
    THEN [data |-> data, keyCount |-> kc]
    ELSE LET step == PadAndZeroPath(f, paths[i], data, kc)
         IN  PadAndZeroFrom(f, paths, i + 1, step.data, step.keyCount)

\* Filler._padAndZero(data, paths), with the counters it leaves
_padAndZero(f, data, paths, kc) == PadAndZeroFrom(f, paths, 1, data, kc)

\* util.generatePaths: every leaf path of the data, in field order
generatePaths(data) == FieldNames(data)

\* the paths addEvent works on
TargetPaths(f, data) ==
    IF ~Truthy(f._fieldSpec) THEN generatePaths(data) ELSE f._fieldSpec.a

\* mutant: the incoming event is remembered, not the filled one
RememberedEventRaw(event, emit) == <<event>>

\* the event addEvent remembers for padding
RememberedEvent(event, emit) == <<emit>>

\* Filler.addEvent on an instance that has observers:
\* [error, toEmit, previousEvent, keyCount]
addEvent(f, kc, event) ==
    LET d == event.data
        paths == TargetPaths(f, d)
    IN  IF f._method \in {Str("zero"), Str("pad")}
        THEN LET r == _padAndZero(f, d, paths, kc)
                 emit == setData(event, ImmMap(r.data)).event
             IN  [error |-> "", toEmit |-> <<emit>>,
                  previousEvent |-> RememberedEvent(event, emit),
                  keyCount |-> r.keyCount]
        ELSE \* linear: the class defines no _linearFill to call
             [error |-> "TypeError", toEmit |-> <<>>,
              previousEvent |-> f._previousEvent, keyCount |-> kc]

----------------------------------------------------------------------------
(* Inputs *)

Pipeline == [kind |-> "Pipeline", ref |-> 0]
OtherFiller(i) == [kind |-> "Filler", ref |-> i]
NotAPipeline == [kind |-> "other", ref |-> 0]

FieldSpecArgs ==
    {Undefined, Null, Str("value"), Arr(<<"value">>), Arr(<<"value", "in">>),
     Arr(<<"value", "value">>)}

MethodArgs == {Undefined, Str("zero"), Str("pad"), Str("linear"), Str("cubic")}

LimitArgs == {Undefined} \cup {Num(n) : n \in 1..MaxLimit}

OptionArgs == [fieldSpec : FieldSpecArgs, method : MethodArgs, limit : LimitArgs]

Data(value, in) ==
    [f \in {"value", "in"} |-> IF f = "value" THEN value ELSE in]

FillData ==
    {EmptyMap,
     [f \in {"value"} |-> Null], [f \in {"value"} |-> Num(3)],
     [f \in {"value"} |-> Num(5)],
     Data(Null, Null), Data(Num(5), Null)}

----------------------------------------------------------------------------
(* Actions on Fillers *)

NoCall ==
    [op |-> "none", self |-> 0, arg1 |-> Pipeline, options |-> NoOptions,
     event |-> <<>>, observed |-> FALSE, error |-> "", emitted |-> <<>>]

NoEvCall == [op |-> "none", self |-> 0, arg |-> Undefined, error |-> "", result |-> 0]

NoGrpCall ==
    [op |-> "none", fieldSpec |-> Undefined, reducer |-> "", error |-> "", out |-> <<>>,
     mapped |-> EmptyMap]

Init ==
    /\ heap = <<>>
    /\ evCall = NoEvCall
    /\ batch = <<>>
    /\ grpCall = NoGrpCall
    /\ fillers = [i \in Slots |-> NoFiller]
    /\ keyCounts = [i \in Slots |-> EmptyMap]
    /\ observers = [i \in Slots |-> FALSE]
    /\ call = NoCall
    /\ supplied = FALSE
    /\ inputs = [i \in Slots |-> <<>>]
    /\ outputs = [i \in Slots |-> <<>>]
    /\ calls = [i \in Slots |-> 0]

\* new Filler(arg1, options) into slot self
Construct(self, arg1, options) ==
    /\ ~fillers[self].live
    /\ LET r == FillerCtor(self, arg1, options)
       IN  /\ fillers' = [fillers EXCEPT ![self] = r.obj]
           /\ keyCounts' = [keyCounts EXCEPT ![self] = EmptyMap]
           /\ observers' = [observers EXCEPT ![self] = ProcessorInit]
           /\ call' = [NoCall EXCEPT !.op = "construct", !.self = self,
                                     !.arg1 = arg1, !.options = options,
                                     !.error = r.error]
           /\ supplied' = IF self = 1 /\ r.error = ""
                          THEN options.fieldSpec # Undefined
                          ELSE supplied
    /\ UNCHANGED <<inputs, outputs, calls, eventVars, groupVars>>

\* an observer is attached to the processor
AddObserver(self) ==
    /\ fillers[self].live
    /\ ~observers[self]
    /\ observers' = [observers EXCEPT ![self] = TRUE]
    /\ call' = [NoCall EXCEPT !.op = "addObserver", !.self = self]
    /\ UNCHANGED <<fillers, keyCounts, supplied, inputs, outputs, calls>>
    /\ UNCHANGED <<eventVars, groupVars>>

\* mutant: addEvent does its work whether or not an observer is attached
DeliversAlways(self) == TRUE

\* addEvent's guard: the event is processed only if the processor has observers
Delivers(self) == hasObservers(self)

\* the pipeline delivers an event: filler.addEvent(event)
AddEvent(self, data) ==
    /\ fillers[self].live
    /\ calls[1] + calls[2] < MaxEvents
    /\ LET event == PointEvent(calls[1] + calls[2] + 1, data)
           f == fillers[self]
           r == addEvent(f, keyCounts[f._keyCount], event)
       IN  /\ calls' = [calls EXCEPT ![self] = @ + 1]
           /\ IF Delivers(self)
              THEN /\ fillers' = [fillers EXCEPT ![self]._previousEvent = r.previousEvent]
                   /\ keyCounts' = [keyCounts EXCEPT ![f._keyCount] = r.keyCount]
                   /\ inputs' = [inputs EXCEPT ![self] = Append(@, event)]
                   /\ outputs' = [outputs EXCEPT ![self] = @ \o r.toEmit]
                   /\ call' = [NoCall EXCEPT !.op = "addEvent", !.self = self,
                                             !.event = <<event>>, !.observed = TRUE,
                                             !.error = r.error, !.emitted = r.toEmit]
              ELSE /\ call' = [NoCall EXCEPT !.op = "addEvent", !.self = self,
                                             !.event = <<event>>]
                   /\ UNCHANGED <<fillers, keyCounts, inputs, outputs>>
    /\ UNCHANGED <<observers, supplied, eventVars, groupVars>>

\* a Filler built from options, observed and fed events
FillConstruct == \E arg1 \in {Pipeline, NotAPipeline}, o \in OptionArgs : Construct(1, arg1, o)
FillObserve == AddObserver(1)
FillDeliver == \E d \in FillData : AddEvent(1, d)

FillNext == FillConstruct \/ FillObserve \/ FillDeliver

SpecFill == Init /\ [][FillNext]_vars

----------------------------------------------------------------------------
(* Actions on Events *)

DataMaps == {[f \in {"value"} |-> Num(1)], Data(Num(1), Num(2))}

DataArgs == {Obj(m) : m \in DataMaps} \cup {Num(7), Str("a"), Bool(TRUE)}

TimeArgs == {Num(1), DateOf(2), Str("noon")}

\* new Event(arg1, arg2)
NewEvent(arg1, arg2) ==
    /\ Len(heap) < MaxHeap
    /\ LET r == EventCtor(arg1, arg2)
       IN  /\ heap' = IF r.error = "" THEN Append(heap, r.event) ELSE heap
           /\ evCall' = [NoEvCall EXCEPT !.op = "new", !.arg = arg2, !.error = r.error,
                                         !.result = IF r.error = "" THEN Len(heap) + 1 ELSE 0]
    /\ UNCHANGED <<fillVars, groupVars>>

\* new Event(other): the copy refers to the same immutable _d
CopyEvent(self) ==
    /\ Len(heap) < MaxHeap
    /\ heap' = Append(heap, heap[self])
    /\ evCall' = [NoEvCall EXCEPT !.op = "copy", !.self = self, !.result = Len(heap) + 1]
    /\ UNCHANGED <<fillVars, groupVars>>

\* heap[self].setData(arg)
SetData(self, arg) ==
    /\ Len(heap) < MaxHeap
    /\ LET r == setData(heap[self], arg)
       IN  /\ heap' = IF r.error = "" THEN Store(heap, self, r.event) ELSE heap
           /\ evCall' = [NoEvCall EXCEPT !.op = "setData", !.self = self, !.arg = arg,
                                         !.error = r.error,
                                         !.result = IF r.error = "" THEN Len(heap) + 1 ELSE 0]
    /\ UNCHANGED <<fillVars, groupVars>>

\* heap[self].collapse(fieldSpecList, name, reducer, append)
Collapse(self, fieldSpecList, name, reducer, append) ==
    /\ Len(heap) < MaxHeap
    /\ LET r == collapse(heap[self], fieldSpecList, name, reducer, append)
       IN  /\ heap' = IF r.error = "" THEN Store(heap, self, r.event) ELSE heap
           /\ evCall' = [NoEvCall EXCEPT !.op = "collapse", !.self = self,
                                         !.error = r.error,
                                         !.result = IF r.error = "" THEN Len(heap) + 1 ELSE 0]
    /\ UNCHANGED <<fillVars, groupVars>>

\* Event.selector(heap[self], fieldPath)
Selector(self, fieldPath) ==
    /\ Len(heap) < MaxHeap
    /\ LET r == selector(heap[self], fieldPath)
       IN  /\ heap' = IF r.same THEN heap ELSE Store(heap, self, r.event)
           /\ evCall' = [NoEvCall EXCEPT !.op = "selector", !.self = self, !.arg = fieldPath,
                                         !.result = IF r.same THEN self ELSE Len(heap) + 1]
    /\ UNCHANGED <<fillVars, groupVars>>

EventNew == \E arg1 \in TimeArgs, arg2 \in DataArgs : NewEvent(arg1, arg2)
EventCopy == \E i \in 1..Len(heap) : CopyEvent(i)
EventSetData == \E i \in 1..Len(heap), arg \in DataArgs : SetData(i, arg)
EventCollapse ==
    \E i \in 1..Len(heap), append \in BOOLEAN :
        Collapse(i, <<"value", "in">>, "total", "count", append)
EventSelector ==
    \E i \in 1..Len(heap), fp \in {Str("value"), Arr(<<"in", "value">>), Undefined} :
        Selector(i, fp)

EventNext == EventNew \/ EventCopy \/ EventSetData \/ EventCollapse \/ EventSelector

SpecEvent == Init /\ [][EventNext]_vars

----------------------------------------------------------------------------
(* Calls of merge and combine on a batch of events *)

Year == <<"2", "0", "1", "5">>
Day == <<"1", "d", "-", "1">>

\* event data with a nested map under one field, as fromJS builds it
Nested(m) == [f \in {"total"} |-> ImmMap(m)]

GroupEvents ==
    {PointEvent(t, d) : t \in {1, 2015},
                        d \in {[f \in {"value"} |-> Num(1)], Data(Num(2), Num(3))}}
        \cup {PointEvent(1, Nested([f \in {"in"} |-> Num(4)])),
              PointEvent(1, Nested([f \in {"value"} |-> Num(5)]))}
        \cup {IndexedEvent(Year, [f \in {"value"} |-> Num(1)]),
              IndexedEvent(Day, Data(Num(2), Num(3))),
              TimeRangeEvent(1, 2, [f \in {"value"} |-> Num(1)]),
              TimeRangeEvent(1, 3, Data(Num(2), Num(3)))}

RECURSIVE Batches(_)
Batches(n) ==
    IF n = 0 THEN {<<>>}
    ELSE Batches(n - 1)
            \cup {Append(b, e) : b \in {x \in Batches(n - 1) : Len(x) = n - 1}, e \in GroupEvents}

InitGroup ==
    /\ heap = <<>>
    /\ evCall = NoEvCall
    /\ batch \in Batches(MaxBatch)
    /\ grpCall = NoGrpCall
    /\ fillers = [i \in Slots |-> NoFiller]
    /\ keyCounts = [i \in Slots |-> EmptyMap]
    /\ observers = [i \in Slots |-> FALSE]
    /\ call = NoCall
    /\ supplied = FALSE
    /\ inputs = [i \in Slots |-> <<>>]
    /\ outputs = [i \in Slots |-> <<>>]
    /\ calls = [i \in Slots |-> 0]

\* Event.merge(batch)
Merge ==
    /\ LET r == merge(batch)
       IN  grpCall' = [NoGrpCall EXCEPT !.op = "merge", !.error = r.error, !.out = r.out]
    /\ UNCHANGED <<batch, fillVars, eventVars>>

\* Event.combine(batch, fieldSpec, reducer)
Combine(fieldSpec, reducer) ==
    /\ LET r == combine(batch, fieldSpec, reducer)
       IN  grpCall' = [NoGrpCall EXCEPT !.op = "combine", !.fieldSpec = fieldSpec,
                                        !.reducer = reducer, !.error = r.error,
                                        !.out = r.out]
    /\ UNCHANGED <<batch, fillVars, eventVars>>

CombineArgs ==
    {<<Undefined, "sum">>, <<Undefined, "first">>, <<Str("value"), "count">>,
     <<Arr(<<"value", "in">>), "sum">>}

GroupCombine == \E a \in CombineArgs : Combine(a[1], a[2])

GroupNext == Merge \/ GroupCombine

SpecGroup == InitGroup /\ [][GroupNext]_vars

\* Event.map(evts, multiFieldSpec)
Map(evts, multiFieldSpec) ==
    /\ LET r == map(evts, multiFieldSpec)
       IN  grpCall' = [NoGrpCall EXCEPT !.op = "map", !.fieldSpec = multiFieldSpec,
                                        !.error = r.error, !.mapped = r.mapped]
    /\ UNCHANGED <<batch, fillVars, eventVars>>

MapArgs == {Undefined, Null, Str("in"), Arr(<<"in", "value">>), Fn("asTotal")}

MapEvents == \E a \in MapArgs : Map(Arr(batch), a)
MapOther == Map(Str("events"), Undefined)

MapNext == MapEvents \/ MapOther

SpecMap == InitGroup /\ [][MapNext]_vars

\* a second instance is cloned from the first, both are observed and fed events
CloneOptionArgs ==
    [fieldSpec : {Arr(<<"value">>)}, method : {Str("zero"), Str("pad")},
     limit : {Undefined, Num(1)}]

CloneData == {[f \in {"value"} |-> Null], [f \in {"value"} |-> Num(5)]}

\* filler.clone() into a free slot
Clone(self, into) ==
    /\ fillers[self].live
    /\ ~fillers[into].live
    /\ LET r == FillerCtor(into, OtherFiller(self), NoOptions)
       IN  /\ fillers' = [fillers EXCEPT ![into] = r.obj]
           /\ keyCounts' = [keyCounts EXCEPT ![into] = EmptyMap]
           /\ observers' = [observers EXCEPT ![into] = ProcessorInit]
           /\ call' = [NoCall EXCEPT !.op = "clone", !.self = self,
                                     !.arg1 = OtherFiller(self), !.error = r.error]
    /\ UNCHANGED <<supplied, inputs, outputs, calls, eventVars, groupVars>>

CloneConstruct == \E o \in CloneOptionArgs : Construct(1, Pipeline, o)
CloneObserve == \E i \in Slots : AddObserver(i)
CloneDeliver == \E i \in Slots, d \in CloneData : AddEvent(i, d)

CloneNext == CloneConstruct \/ Clone(1, 2) \/ CloneObserve \/ CloneDeliver

SpecClone == Init /\ [][CloneNext]_vars

----------------------------------------------------------------------------
(* Properties of the Filler *)

Range(seq) == {seq[i] : i \in 1..Len(seq)}

Occurrences(seq, x) == Cardinality({i \in 1..Len(seq) : seq[i] = x})

Fields == {"value", "in"}

\* every addEvent call made on the instance found an observer attached
AllObserved(self) == calls[self] = Len(inputs[self])

\* p is one of the paths the instance was configured with
Configured(f, p) == f._fieldSpec.k = "array" /\ p \in Range(f._fieldSpec.a)

\* whether the event has a gap at p; absentCounts says whether an event that
\* does not contain p at all counts as having a missing value there
IsGap(ev, p, absentCounts) ==
    IF hasIn(ev.data, p) THEN isMissing(ev.data[p]) ELSE absentCounts

\* the number of consecutive inputs, ending with the j-th, that have a gap at p
RECURSIVE MissingRun(_, _, _, _)
MissingRun(ins, j, p, absentCounts) ==
    IF j = 0 THEN 0
    ELSE IF ~IsGap(ins[j], p, absentCounts) THEN 0
    ELSE 1 + MissingRun(ins, j - 1, p, absentCounts)

\* the last non-missing value at p among the first j inputs (undefined if none)
RECURSIVE LastGood(_, _, _)
LastGood(ins, j, p) ==
    IF j = 0 THEN Undefined
    ELSE IF ~isMissing(getIn(ins[j].data, p)) THEN getIn(ins[j].data, p)
    ELSE LastGood(ins, j - 1, p)

\* outs is ins zero-filled at p with run limit L: the first L events of each run of
\* gaps carry 0, the later ones stay missing, the others are unchanged
ZeroFilled(ins, outs, p, L, absentCounts) ==
    /\ Len(outs) = Len(ins)
    /\ \A j \in 1..Len(ins) :
          LET v == getIn(ins[j].data, p)
              o == getIn(outs[j].data, p)
          IN  IF IsGap(ins[j], p, absentCounts)
              THEN IF MissingRun(ins, j, p, absentCounts) <= L
                   THEN o = Num(0)
                   ELSE isMissing(o)
              ELSE o = v

\* C1 as stated: zero fill with a positive limit L on a configured path emits, in each
\* maximal run of consecutive inputs whose value at the path is missing, the first L
\* events with 0 and the later ones still missing; other inputs are emitted unchanged.
\* Stated for any sequence of events, and read either way: an event that does not
\* contain the path counts as missing there, or it does not.
C1_ZeroFillLimitAnyInput ==
    \A p \in Fields :
        LET f == fillers[1]
        IN  (f.live /\ f._method = Str("zero") /\ Truthy(f._limit)
                /\ Configured(f, p) /\ Occurrences(f._fieldSpec.a, p) = 1
                /\ AllObserved(1))
            => \/ ZeroFilled(inputs[1], outputs[1], p, f._limit.n, TRUE)
               \/ ZeroFilled(inputs[1], outputs[1], p, f._limit.n, FALSE)

\* C1 amended: the same, for a path listed once in fieldSpec and a sequence of events
\* every one of which contains the path (an event without the path is emitted as it
\* is and leaves the path's counter alone).
C1_ZeroFillLimit ==
    \A p \in Fields :
        LET f == fillers[1]
        IN  (f.live /\ f._method = Str("zero") /\ Truthy(f._limit)
                /\ Configured(f, p) /\ Occurrences(f._fieldSpec.a, p) = 1
                /\ AllObserved(1)
                /\ \A j \in 1..Len(inputs[1]) : hasIn(inputs[1][j].data, p))
            => ZeroFilled(inputs[1], outputs[1], p, f._limit.n, TRUE)

ValuesAt(evs, p) == [j \in 1..Len(evs) |-> getIn(evs[j].data, p)]

\* limit 1, inputs [missing, missing, 5, missing] have been emitted as [0, missing, 5, 0]
C1_Witness ==
    /\ fillers[1].live /\ fillers[1]._method = Str("zero")
    /\ fillers[1]._limit = Num(1) /\ fillers[1]._fieldSpec = Arr(<<"value">>)
    /\ AllObserved(1)
    /\ ValuesAt(inputs[1], "value") = <<Null, Null, Num(5), Null>>
    /\ ValuesAt(outputs[1], "value") = <<Num(0), Null, Num(5), Num(0)>>

\* C2: pad fill without a limit, every event containing the path: an event whose
\* value at the path is missing is emitted with the most recent earlier non-missing
\* input value, however long the run; before any such value it is emitted missing.
C2_PadForward ==
    \A p \in Fields :
        LET f == fillers[1]
            ins == inputs[1]
            outs == outputs[1]
        IN  (f.live /\ f._method = Str("pad") /\ ~Truthy(f._limit)
                /\ (Configured(f, p) \/ ~Truthy(f._fieldSpec))
                /\ AllObserved(1)
                /\ \A j \in 1..Len(ins) : hasIn(ins[j].data, p))
            => /\ Len(outs) = Len(ins)
               /\ \A j \in 1..Len(ins) :
                     isMissing(getIn(ins[j].data, p))
                     => IF isMissing(LastGood(ins, j - 1, p))
                        THEN isMissing(getIn(outs[j].data, p))
                        ELSE getIn(outs[j].data, p) = LastGood(ins, j - 1, p)

\* inputs [missing, 3, missing, missing] have been emitted as [missing, 3, 3, 3]
C2_Witness ==
    /\ fillers[1].live /\ fillers[1]._method = Str("pad")
    /\ fillers[1]._limit = Null /\ fillers[1]._fieldSpec = Arr(<<"value">>)
    /\ AllObserved(1)
    /\ ValuesAt(inputs[1], "value") = <<Null, Num(3), Null, Null>>
    /\ ValuesAt(outputs[1], "value") = <<Null, Num(3), Num(3), Num(3)>>

\* C3: a Filler configured with method linear and one path emits a non-missing event
\* at once when nothing is pending, queues an event whose value is missing, and on the
\* next non-missing value emits the queued events interpolated, then the current one.
\* It presupposes that such a Filler can be built and that addEvent runs on it.
NamesOnePath(fieldSpec) ==
    \/ isString(fieldSpec)
    \/ isNull(fieldSpec)
    \/ (fieldSpec.k = "array" /\ Len(fieldSpec.a) = 1)

C3_LinearFill ==
    /\ (call.op = "construct" /\ call.arg1 = Pipeline
            /\ call.options.method = Str("linear")
            /\ NamesOnePath(call.options.fieldSpec))
        => (call.error = "" /\ fillers[1].live /\ fillers[1]._method = Str("linear"))
    /\ (call.op = "addEvent" /\ call.observed
            /\ fillers[call.self]._method = Str("linear")
            /\ fillers[call.self]._linearFillCache = <<>>
            /\ ~isMissing(getIn(call.event[1].data, "value")))
        => call.emitted = call.event

\* the run state of an instance, its counters read through the reference
RunState(self) ==
    [previousEvent |-> fillers[self]._previousEvent,
     keyCount |-> keyCounts[fillers[self]._keyCount],
     lastGoodLinear |-> fillers[self]._lastGoodLinear,
     linearFillCache |-> fillers[self]._linearFillCache]

FreshRunState ==
    [previousEvent |-> <<>>, keyCount |-> EmptyMap,
     lastGoodLinear |-> Null, linearFillCache |-> <<>>]

\* C4: a clone has the fieldSpec, method and limit of the original and a fresh run
\* state, whatever the original has processed; and an addEvent on one of the two
\* changes neither the run state nor the outputs of the other.
C4_CloneIsFresh ==
    [][ /\ (call'.op = "clone" /\ call'.error = "")
            => /\ fillers'[2].live
               /\ fillers'[2]._fieldSpec = fillers[1]._fieldSpec
               /\ fillers'[2]._method = fillers[1]._method
               /\ fillers'[2]._limit = fillers[1]._limit
               /\ RunState(2)' = FreshRunState
               /\ RunState(1)' = RunState(1)
        /\ \A i \in Slots :
              (fillers[1].live /\ fillers[2].live /\ calls'[i] # calls[i])
              => /\ RunState(3 - i)' = RunState(3 - i)
                 /\ outputs'[3 - i] = outputs[3 - i]
                 /\ fillers'[3 - i] = fillers[3 - i] ]_vars

\* the original has counted fills and remembers an event, the clone was made after
\* that and has since filled an event of its own
C4_Witness ==
    /\ fillers[1].live /\ fillers[2].live
    /\ Len(inputs[1]) >= 1 /\ Len(inputs[2]) >= 1
    /\ inputs[2][1].time > inputs[1][1].time
    /\ RunState(1).keyCount # EmptyMap
    /\ RunState(1).keyCount # RunState(2).keyCount
    /\ RunState(1).previousEvent # RunState(2).previousEvent

\* the paths addEvent may fill in an event handled by f
IsTarget(f, p) == ~Truthy(f._fieldSpec) \/ Configured(f, p)

\* C5: in zero or pad mode with an observer attached every addEvent call emits exactly
\* one event, during the call, so in arrival order; it has the timestamp of the input
\* and its data differs from the input's only at target paths that the input holds with
\* a missing value; a target path that the input does not hold is not added.
C5_OneEventPerCall ==
    /\ (call.op = "addEvent" /\ call.observed
            /\ fillers[call.self]._method \in {Str("zero"), Str("pad")})
        => /\ Len(call.emitted) = 1
           /\ call.error = ""
           /\ outputs[call.self][Len(outputs[call.self])] = call.emitted[1]
           /\ call.emitted[1].time = call.event[1].time
           /\ call.emitted[1].type = call.event[1].type
           /\ DOMAIN call.emitted[1].data = DOMAIN call.event[1].data
           /\ \A p \in DOMAIN call.event[1].data :
                 call.emitted[1].data[p] # call.event[1].data[p]
                 => (IsTarget(fillers[call.self], p) /\ isMissing(call.event[1].data[p]))
    /\ \A i \in Slots :
          (fillers[i].live /\ fillers[i]._method \in {Str("zero"), Str("pad")})
          => /\ Len(outputs[i]) = Len(inputs[i])
             /\ \A j \in 1..Len(inputs[i]) : outputs[i][j].time = inputs[i][j].time

\* an event that lacks one target path and has another one missing was emitted with
\* the second filled and the first still not there
C5_Witness ==
    /\ call.op = "addEvent" /\ call.observed
    /\ fillers[1]._fieldSpec = Arr(<<"value", "in">>)
    /\ DOMAIN call.event[1].data = {"value"}
    /\ call.event[1].data["value"] = Null
    /\ call.emitted = <<[call.event[1] EXCEPT !.data = [f \in {"value"} |-> Num(0)]]>>
    /\ Len(outputs[1]) = 2

\* C6: construction fails with a configuration error when the method is not zero, pad
\* or linear, and when the method is linear and fieldSpec names more than one path;
\* no instance is produced.
C6_InvalidConfigRejected ==
    (call.op = "construct" /\ call.arg1 = Pipeline)
    => /\ (call.options.method \notin {Undefined, Str("zero"), Str("pad"), Str("linear")})
          => (call.error = "Unknown method passed to Filler" /\ ~fillers[call.self].live)
       /\ (call.options.method = Str("linear")
              /\ call.options.fieldSpec.k = "array" /\ Len(call.options.fieldSpec.a) > 1)
          => (call.error = "Linear fill takes a path to a single column"
                 /\ ~fillers[call.self].live)

\* C7: when no fieldSpec is supplied only the path "value" is filled: any other field
\* that is missing in an incoming event is emitted still missing.
C7_DefaultFieldOnly ==
    (fillers[1].live /\ ~supplied)
    => \A j \in 1..Len(outputs[1]) :
          \A p \in DOMAIN inputs[1][j].data \ {"value"} :
              isMissing(inputs[1][j].data[p]) => isMissing(getIn(outputs[1][j].data, p))

----------------------------------------------------------------------------
(* Properties of Events *)

\* the data a replacement stands for: a mapping itself, a bare scalar as {value: scalar}
Replacement(arg) == IF isObject(arg) THEN arg.m ELSE [f \in {"value"} |-> arg]

\* C8: no setData, collapse or selector call, on an event or on one derived from it,
\* changes the time or the data of an event that exists; and the event setData returns
\* has the time of the receiver and the replacement as its data.
C8_EventsImmutable ==
    [][ /\ \A i \in 1..Len(heap) : (i <= Len(heap') /\ heap'[i] = heap[i])
        /\ (evCall'.op = "setData" /\ evCall'.error = "")
            => /\ evCall'.result = Len(heap) + 1
               /\ heap'[evCall'.result].time = heap[evCall'.self].time
               /\ heap'[evCall'.result].type = heap[evCall'.self].type
               /\ heap'[evCall'.result].data = Replacement(evCall'.arg) ]_vars

\* an event, an event derived from it by setData with other data, and one derived from
\* that one by collapse
C8_Witness ==
    /\ Len(heap) = 3
    /\ evCall.op = "collapse" /\ evCall.self = 2 /\ evCall.result = 3
    /\ heap[1].data = Data(Num(1), Num(2))
    /\ heap[2].data = [f \in {"value"} |-> Num(7)]
    /\ heap[2].time = heap[1].time
    /\ heap[3].data = [f \in {"total"} |-> Num(2)]

----------------------------------------------------------------------------
(* Properties of merge and combine *)

\* two events of the batch map to one group key and are of different variants
Heterogeneous(events) ==
    \E i, j \in 1..Len(events) :
        EventKey(events[i]) = EventKey(events[j]) /\ events[i].type # events[j].type

\* the variant and temporal identity of an event
Identity(e) == [type |-> e.type, time |-> e.time, range |-> e.range, index |-> e.index]

\* C9: merge and combine fail when two events of the input map to the same group key
\* and differ in variant, wherever they stand in the input, and return no events.
C9_HeterogeneousFails ==
    (grpCall.op \in {"merge", "combine"} /\ Heterogeneous(batch))
    => (grpCall.error # "" /\ grpCall.out = <<>>)

\* a point event and an indexed event with the same key, another event between them
C9_Witness ==
    /\ grpCall.op = "merge" /\ grpCall.error # ""
    /\ Len(batch) = 3
    /\ batch[1].type = "Event" /\ batch[3].type = "IndexedEvent"
    /\ EventKey(batch[1]) = EventKey(batch[3])
    /\ EventKey(batch[2]) # EventKey(batch[1])

GroupOf(e) == SelectSeq(batch, LAMBDA x : Identity(x) = Identity(e))

\* a deep merge of two data maps: nested maps under one key are merged field by field
RECURSIVE DeepMerge(_, _)
DeepMerge(m1, m2) ==
    [f \in DOMAIN m1 \cup DOMAIN m2 |->
        IF f \in DOMAIN m1 /\ f \in DOMAIN m2
        THEN IF m1[f].k = "Map" /\ m2[f].k = "Map"
             THEN ImmMap(DeepMerge(m1[f].m, m2[f].m))
             ELSE m2[f]
        ELSE IF f \in DOMAIN m2 THEN m2[f] ELSE m1[f]]

RECURSIVE DeepMergeAll(_, _)
DeepMergeAll(events, n) ==
    IF n = 0 THEN EmptyMap ELSE DeepMerge(DeepMergeAll(events, n - 1), events[n].data)

\* the last event of a group that holds the top-level field f
LastHolding(events, f) ==
    events[CHOOSE i \in 1..Len(events) :
               /\ f \in DOMAIN events[i].data
               /\ \A j \in (i + 1)..Len(events) : f \notin DOMAIN events[j].data]

\* C11 as stated: the data of each event merge returns is the deep merge of the data
\* of the events of its group, in input order.
C11_DeepMerge ==
    (grpCall.op = "merge" /\ grpCall.error = "")
    => \A j \in 1..Len(grpCall.out) :
          LET g == GroupOf(grpCall.out[j])
          IN  grpCall.out[j].data = DeepMergeAll(g, Len(g))

\* C11: the data of each event merge returns holds every top-level field held by an
\* event of its group, each with the whole value of the last event of the group that
\* holds the field; a nested map is replaced, not merged.
C11_ShallowMerge ==
    (grpCall.op = "merge" /\ grpCall.error = "")
    => \A j \in 1..Len(grpCall.out) :
          LET g == GroupOf(grpCall.out[j])
              d == grpCall.out[j].data
          IN  /\ DOMAIN d = UNION {DOMAIN g[i].data : i \in 1..Len(g)}
              /\ \A f \in DOMAIN d : d[f] = LastHolding(g, f).data[f]

\* two events of one group hold nested maps with different fields under one key, and
\* a third one adds a top-level field
C11_Witness ==
    /\ grpCall.op = "merge" /\ grpCall.error = ""
    /\ Len(batch) = 3 /\ Len(grpCall.out) = 1
    /\ "total" \in DOMAIN batch[1].data /\ "total" \in DOMAIN batch[3].data
    /\ batch[1].data["total"] # batch[3].data["total"]
    /\ "value" \in DOMAIN batch[2].data
    /\ DOMAIN grpCall.out[1].data = {"value", "in", "total"}

\* the values of the field f in the given events, in order
ValuesOf(events, f) == [i \in 1..Len(events) |-> getIn(events[i].data, f)]

\* the events of a group that hold the field f, in input order
Holding(events, f) == SelectSeq(events, LAMBDA x : f \in DOMAIN x.data)

\* C12 as stated: combine without a fieldSpec reduces, for each group, the fields of
\* the group's first event and no others, over one value per event of the group.
C12_FirstEventFields ==
    (grpCall.op = "combine" /\ grpCall.fieldSpec = Undefined /\ grpCall.error = "")
    => \A j \in 1..Len(grpCall.out) :
          LET g == GroupOf(grpCall.out[j])
              d == grpCall.out[j].data
          IN  /\ DOMAIN d = DOMAIN g[1].data
              /\ \A f \in DOMAIN d : d[f] = Reduce(grpCall.reducer, ValuesOf(g, f))

\* C12: combine without a fieldSpec reduces, for each group, every field held by any
\* event of the group, over the values of the events of the group that hold the field,
\* in input order.
C12_EveryEventFields ==
    (grpCall.op = "combine" /\ grpCall.fieldSpec = Undefined /\ grpCall.error = "")
    => \A j \in 1..Len(grpCall.out) :
          LET g == GroupOf(grpCall.out[j])
              d == grpCall.out[j].data
          IN  /\ DOMAIN d = UNION {DOMAIN g[i].data : i \in 1..Len(g)}
              /\ \A f \in DOMAIN d :
                    d[f] = Reduce(grpCall.reducer, ValuesOf(Holding(g, f), f))

\* a group whose second event holds a field that its first event lacks, combined with
\* no fieldSpec
C12_Witness ==
    /\ grpCall.op = "combine" /\ grpCall.fieldSpec = Undefined /\ grpCall.error = ""
    /\ Len(batch) = 2 /\ Len(grpCall.out) = 1
    /\ DOMAIN batch[1].data = {"value"} /\ DOMAIN batch[2].data = {"value", "in"}
    /\ DOMAIN grpCall.out[1].data = {"value", "in"}

\* C13: map called without a fieldSpec returns one key for every top-level key held
\* by any input event, each with the list of that key's values in input order.
C13_MapAllKeys ==
    (grpCall.op = "map" /\ grpCall.fieldSpec = Undefined /\ grpCall.error = "")
    => /\ DOMAIN grpCall.mapped = UNION {DOMAIN batch[i].data : i \in 1..Len(batch)}
       /\ \A f \in DOMAIN grpCall.mapped :
             grpCall.mapped[f] = ValuesOf(Holding(batch, f), f)

(* Properties of the Filler's run state *)

\* the counters of the instance, by path
KeyCount(self) == keyCounts[fillers[self]._keyCount]

\* the j-th event was emitted with a filled value at p
FilledAt(ins, outs, j, p) ==
    isMissing(getIn(ins[j].data, p)) /\ ~isMissing(getIn(outs[j].data, p))

\* the number of events emitted with a filled value at p since the last of the first j
\* inputs that had a non-missing value at p
RECURSIVE FillsSince(_, _, _, _)
FillsSince(ins, outs, j, p) ==
    IF j = 0 THEN 0
    ELSE IF ~isMissing(getIn(ins[j].data, p)) THEN 0
    ELSE (IF FilledAt(ins, outs, j, p) THEN 1 ELSE 0) + FillsSince(ins, outs, j - 1, p)

\* every counter of the instance lies in 0..L and counts the fills of its path
CountersCountFills(self, L) ==
    /\ Len(outputs[self]) = Len(inputs[self])
    /\ \A p \in DOMAIN KeyCount(self) :
          /\ KeyCount(self)[p] \in 0..L
          /\ KeyCount(self)[p]
                = FillsSince(inputs[self], outputs[self], Len(inputs[self]), p)

\* the fieldSpec of the instance lists no path more than once (or there is none)
ListsPathsOnce(f) ==
    f._fieldSpec.k = "array"
        => \A p \in Range(f._fieldSpec.a) : Occurrences(f._fieldSpec.a, p) = 1

\* C15 as stated: in zero and pad mode with a positive limit L every per-path counter
\* lies in 0..L and equals the number of events emitted with a filled value at the
\* path since the last input that had a non-missing value there.
C15_CounterCountsFillsAnySpec ==
    LET f == fillers[1]
    IN  (f.live /\ f._method \in {Str("zero"), Str("pad")} /\ Truthy(f._limit))
        => CountersCountFills(1, f._limit.n)

\* C15: the same, for an instance whose fieldSpec lists no path more than once.
C15_CounterCountsFills ==
    LET f == fillers[1]
    IN  (f.live /\ f._method \in {Str("zero"), Str("pad")} /\ Truthy(f._limit)
           /\ ListsPathsOnce(f))
        => CountersCountFills(1, f._limit.n)

\* pad with limit 2: inputs [5, missing, missing, missing] were emitted as
\* [5, 5, 5, missing] and the counter stands at 2
C15_Witness ==
    /\ fillers[1].live /\ fillers[1]._method = Str("pad")
    /\ fillers[1]._limit = Num(2) /\ fillers[1]._fieldSpec = Arr(<<"value">>)
    /\ ValuesAt(inputs[1], "value") = <<Num(5), Null, Null, Null>>
    /\ ValuesAt(outputs[1], "value") = <<Num(5), Num(5), Num(5), Null>>
    /\ KeyCount(1) = [p \in {"value"} |-> 2]

IsScalar(v) == v.k \in {"number", "string", "boolean"}

\* C14: a bare number, string or boolean given as data to the constructor or to setData
\* is stored as {value: scalar}; with such data the call fails only for a timestamp
\* argument that is not recognised.
C14_ScalarSugar ==
    (evCall.op \in {"new", "setData"} /\ IsScalar(evCall.arg))
    => /\ evCall.error \in {"", "Unable to get timestamp"}
       /\ evCall.error = "" => heap[evCall.result].data = [f \in {"value"} |-> evCall.arg]

====
